---- MODULE Spec2Model ----
(***************************************************************************)
(* A model of d6.c: the program that prints up to ten random dice faces    *)
(* as text through one writev.                                             *)
(*                                                                         *)
(* Machine integers keep their width.  A uint64_t is the sequence of its 8 *)
(* bytes, most significant first; an unsigned int is a pair of 16-bit      *)
(* halves.  The 64-bit table pips is the sequence of its 9-bit groups.     *)
(* A C string literal is the sequence of its characters followed by NUL.   *)
(***************************************************************************)
EXTENDS Integers, Sequences, FiniteSets, TLC

VARIABLES
    pc,         \* position in main
    argc,       \* number of command line words
    atoi_ret,   \* what atoi(argv[1]) returns (read only when argc > 1)
    count,      \* unsigned int count, as [hi, lo] 16-bit halves
    rand,       \* the file descriptor open() returned
    fdOpen,     \* TRUE while the process holds a handle on /dev/random
    readRet,    \* what read() returned
    dice_vals,  \* uint64_t dice_vals, 8 bytes, most significant first
    vec_count,  \* size_t vec_count
    vecs,       \* the alloca'd array of struct iovec
    dice_num,   \* loop counter of the for loop
    row,        \* uint8_t row of the current while loop
    value,      \* uint8_t value of the current die
    lastCall,   \* <<row, value, part>> of the latest row_vec call, <<>> if none
    faces,      \* the values derived so far, in die order
    entropy,    \* what dice_vals held when read() returned
    output,     \* the bytes written to standard output
    status,     \* exit status, -1 while running
    events      \* the system calls and derivations made so far, in order

vars == <<pc, argc, atoi_ret, count, rand, fdOpen, readRet, dice_vals,
          vec_count, vecs, dice_num, row, value, lastCall, faces, entropy,
          output, status, events>>

-----------------------------------------------------------------------------
(* Bounds of the model *)

\* entropy blocks Sample(0) .. Sample(MaxSample) are tried, besides 2^64-1
MaxSample == 1

\* atoi results -MaxArg .. MaxDice + MaxArg are tried, besides INT_MIN, INT_MAX
MaxArg == 1

-----------------------------------------------------------------------------
(* Constants of the program *)

MaxDice == 10

NumRows == 7

\* the row length without the separating pixel
dice_row_len_FaceOnly == 2 * NumRows

dice_row_len == 16

EntropyBytes == 8

NUL == "NUL"

NULL == <<>>

\* a pointer that is not to a string of the program
InvalidPtr == <<"?">>

RECURSIVE Pow2(_)
Pow2(n) == IF n = 0 THEN 1 ELSE 2 * Pow2(n - 1)

\* pips with the face of 5 a copy of the face of 4
pipsFiveAsFour == <<0, \o020, \o104, \o124, \o505, \o505, \o555, 0>>

\* pips with a slip in the face of 3: 0134 for 0124
pipsThreeTypo == <<0, \o020, \o104, \o134, \o505, \o525, \o555, 0>>

\* the 9-bit groups of pips, group 0 first (group v is the face of value v);
\* bit 63 is the only bit of group 7
pips == <<0, \o020, \o104, \o124, \o505, \o525, \o555, 0>>

\* bit p of pips
PipsBit(p) == IF p > 63 THEN 0 ELSE (pips[(p \div 9) + 1] \div Pow2(p % 9)) % 2

\* (pips >> s) & 7, for a shift the type allows
ShiftAnd7(s) == PipsBit(s) + 2 * PipsBit(s + 1) + 4 * PipsBit(s + 2)

Hashes(n) == [i \in 1..n |-> "#"]

Blank == <<" ", " ">>

\* dice_parts with the entries of the left and the right pip exchanged
dice_partsMirrored == <<
    Hashes(14) \o Blank \o <<NUL>>,
    Hashes(10) \o Blank \o Hashes(2) \o Blank \o <<NUL>>,
    Hashes(6) \o Blank \o Hashes(6) \o Blank \o <<NUL>>,
    NULL,
    Hashes(2) \o Blank \o Hashes(10) \o Blank \o <<NUL>>,
    Hashes(2) \o Blank \o Hashes(6) \o Blank \o Hashes(2) \o Blank \o <<NUL>> >>

dice_parts == <<
    Hashes(14) \o Blank \o <<NUL>>,
    Hashes(2) \o Blank \o Hashes(10) \o Blank \o <<NUL>>,
    Hashes(6) \o Blank \o Hashes(6) \o Blank \o <<NUL>>,
    NULL,
    Hashes(10) \o Blank \o Hashes(2) \o Blank \o <<NUL>>,
    Hashes(2) \o Blank \o Hashes(6) \o Blank \o Hashes(2) \o Blank \o <<NUL>> >>

\* the values `part` can take in row_vec(r, v); a shift by 64 or more is
\* undefined and may leave any 3-bit pattern
PartsOf(r, v) ==
    IF r % 2 = 1
    THEN IF v * 9 + 3 * (r \div 2) < 64
         THEN {ShiftAnd7(v * 9 + 3 * (r \div 2))}
         ELSE 0..7
    ELSE {0}

\* the iovec row_vec returns once part is computed; an index past the end of
\* dice_parts reads some other pointer
row_vec(part) ==
    [iov_base |-> IF part < Len(dice_parts) THEN dice_parts[part + 1]
                  ELSE InvalidPtr,
     iov_len |-> dice_row_len]

NewlineVec == [iov_base |-> <<"\n", NUL>>, iov_len |-> 1]

\* an element of the alloca'd array nothing was stored in yet
Uninit == [iov_base |-> InvalidPtr, iov_len |-> 0 - 1]

-----------------------------------------------------------------------------
(* unsigned int and uint64_t *)

\* the conversion of an int to a 16-bit unsigned
ToUnsignedShort(n) == [hi |-> 0, lo |-> n % 65536]

\* the conversion of an int to unsigned int: n mod 2^32, in 16-bit halves
ToUnsigned(n) ==
    IF n >= 0
    THEN [hi |-> n \div 65536, lo |-> n % 65536]
    ELSE [hi |-> 32768 + (((n + 2147483647) + 1) \div 65536),
          lo |-> ((n + 2147483647) + 1) % 65536]

\* count > 11
TooManyOffByOne(c) == c.hi > 0 \/ c.lo > MaxDice + 1

\* count > 10
TooMany(c) == c.hi > 0 \/ c.lo > MaxDice

\* long division of the bytes bs by 6, from byte i on, with remainder rem
RECURSIVE DivMod6(_, _, _)
DivMod6(bs, i, rem) ==
    IF i > Len(bs)
    THEN [quot |-> <<>>, rem |-> rem]
    ELSE LET cur == rem * 256 + bs[i]
             rest == DivMod6(bs, i + 1, cur % 6)
         IN [quot |-> <<cur \div 6>> \o rest.quot, rem |-> rest.rem]

\* dice_vals % 6
Mod6(bs) == DivMod6(bs, 1, 0).rem

\* dice_vals left as it is
Div6Skipped(bs) == bs

\* dice_vals / 6
Div6(bs) == DivMod6(bs, 1, 0).quot

\* the object after read() stored n bytes of e in it: the first n bytes in
\* memory are the n least significant ones (little-endian host)
Overwrite(old, e, n) ==
    [i \in 1..EntropyBytes |-> IF i > EntropyBytes - n THEN e[i] ELSE old[i]]

-----------------------------------------------------------------------------
(* Inputs *)

Sample(k) ==
    [i \in 1..EntropyBytes |-> (k * (26 + 11 * i) + k * k * i * 29) % 256]

Samples ==
    {Sample(k) : k \in 0..MaxSample} \cup {[i \in 1..EntropyBytes |-> 255]}

ArgValues ==
    (0 - MaxArg)..(MaxDice + MaxArg) \cup {(0 - 2147483647) - 1, 2147483647}

-----------------------------------------------------------------------------
(* main *)

Init ==
    /\ pc = "parse"
    /\ argc \in {1, 2}
    /\ atoi_ret \in IF argc > 1 THEN ArgValues ELSE {0}
    /\ count = ToUnsigned(1)
    /\ rand = 0 - 1
    /\ fdOpen = FALSE
    /\ readRet = 0
    /\ dice_vals \in Samples
    /\ vec_count = 0
    /\ vecs = <<>>
    /\ dice_num = 0
    /\ row = 0
    /\ value = 0
    /\ lastCall = <<>>
    /\ faces = <<>>
    /\ entropy = dice_vals
    /\ output = <<>>
    /\ status = 0 - 1
    /\ events = <<>>

ParseArgs ==
    /\ pc = "parse"
    /\ count' = IF argc > 1 THEN ToUnsigned(atoi_ret) ELSE count
    /\ pc' = "check"
    /\ UNCHANGED <<argc, atoi_ret, rand, fdOpen, readRet, dice_vals, vec_count,
                   vecs, dice_num, row, value, lastCall, faces, entropy,
                   output, status, events>>

RejectCount ==
    /\ pc = "check"
    /\ TooMany(count)
    /\ status' = 1
    /\ pc' = "done"
    /\ events' = Append(events, "exit")
    /\ UNCHANGED <<argc, atoi_ret, count, rand, fdOpen, readRet, dice_vals,
                   vec_count, vecs, dice_num, row, value, lastCall, faces,
                   entropy, output>>

AcceptCount ==
    /\ pc = "check"
    /\ ~TooMany(count)
    /\ pc' = "open"
    /\ UNCHANGED <<argc, atoi_ret, count, rand, fdOpen, readRet, dice_vals,
                   vec_count, vecs, dice_num, row, value, lastCall, faces,
                   entropy, output, status, events>>

OpenRandom ==
    /\ pc = "open"
    /\ \E ok \in BOOLEAN :
         /\ rand' = IF ok THEN 3 ELSE 0 - 1
         /\ fdOpen' = ok
    /\ events' = Append(events, "open")
    /\ pc' = "read"
    /\ UNCHANGED <<argc, atoi_ret, count, readRet, dice_vals, vec_count, vecs,
                   dice_num, row, value, lastCall, faces, entropy, output,
                   status>>

\* read() with its result checked: anything but a full read ends the program
ReadRandomChecked ==
    /\ pc = "read"
    /\ IF rand < 0
       THEN /\ readRet' = 0 - 1
            /\ dice_vals' = dice_vals
       ELSE \E n \in (0 - 1)..EntropyBytes, e \in Samples :
                /\ readRet' = n
                /\ dice_vals' = IF n > 0 THEN Overwrite(dice_vals, e, n)
                                ELSE dice_vals
    /\ entropy' = dice_vals'
    /\ events' = Append(events, "read")
    /\ pc' = IF readRet' = EntropyBytes THEN "close" ELSE "done"
    /\ status' = IF readRet' = EntropyBytes THEN status ELSE 1
    /\ UNCHANGED <<argc, atoi_ret, count, rand, fdOpen, vec_count, vecs,
                   dice_num, row, value, lastCall, faces, output>>

ReadRandom ==
    /\ pc = "read"
    /\ IF rand < 0
       THEN /\ readRet' = 0 - 1
            /\ dice_vals' = dice_vals
       ELSE \E n \in (0 - 1)..EntropyBytes, e \in Samples :
                /\ readRet' = n
                /\ dice_vals' = IF n > 0 THEN Overwrite(dice_vals, e, n)
                                ELSE dice_vals
    /\ entropy' = dice_vals'
    /\ events' = Append(events, "read")
    /\ pc' = "close"
    /\ UNCHANGED <<argc, atoi_ret, count, rand, fdOpen, vec_count, vecs,
                   dice_num, row, value, lastCall, faces, output, status>>

\* close() left out
CloseRandomLeak ==
    /\ pc = "close"
    /\ pc' = "alloca"
    /\ UNCHANGED <<argc, atoi_ret, count, rand, fdOpen, readRet, dice_vals,
                   vec_count, vecs, dice_num, row, value, lastCall, faces,
                   entropy, output, status, events>>

CloseRandom ==
    /\ pc = "close"
    /\ fdOpen' = FALSE
    /\ events' = Append(events, "close")
    /\ pc' = "alloca"
    /\ UNCHANGED <<argc, atoi_ret, count, rand, readRet, dice_vals, vec_count,
                   vecs, dice_num, row, value, lastCall, faces, entropy,
                   output, status>>

\* count as a number, for a count whose upper half is zero
CountVal(c) == c.hi * 65536 + c.lo

\* the line end index with rows of count elements
LineEndIndexNoSlot(r, c) == r * c + c

\* where the line end of row r goes: row * (count+1) + count
LineEndIndex(r, c) == r * (c + 1) + c

\* where row r of die d goes: row * (count+1) + dice_num
StripIndex(r, c, d) == r * (c + 1) + d

Alloca ==
    /\ pc = "alloca"
    /\ vec_count' = NumRows * (CountVal(count) + 1)
    /\ vecs' = [i \in 1..vec_count' |-> Uninit]
    /\ row' = NumRows
    /\ pc' = "line_ends"
    /\ UNCHANGED <<argc, atoi_ret, count, rand, fdOpen, readRet, dice_vals,
                   dice_num, value, lastCall, faces, entropy, output, status,
                   events>>

\* one pass of `while (row-- > 0)` over the line ends
PutLineEnd ==
    /\ pc = "line_ends"
    /\ row > 0
    /\ row' = row - 1
    /\ vecs' = [vecs EXCEPT ![LineEndIndex(row', CountVal(count)) + 1] =
                                NewlineVec]
    /\ UNCHANGED <<pc, argc, atoi_ret, count, rand, fdOpen, readRet,
                   dice_vals, vec_count, dice_num, value, lastCall, faces,
                   entropy, output, status, events>>

\* the test that ends the loop leaves the uint8_t at 255; the for loop starts
LineEndsDone ==
    /\ pc = "line_ends"
    /\ row = 0
    /\ row' = 255
    /\ dice_num' = 0
    /\ pc' = "for"
    /\ UNCHANGED <<argc, atoi_ret, count, rand, fdOpen, readRet, dice_vals,
                   vec_count, vecs, value, lastCall, faces, entropy, output,
                   status, events>>

\* the head of one pass of the for loop
DeriveValue ==
    /\ pc = "for"
    /\ dice_num < CountVal(count)
    /\ value' = Mod6(dice_vals) + 1
    /\ dice_vals' = Div6(dice_vals)
    /\ faces' = Append(faces, value')
    /\ events' = Append(events, "derive")
    /\ row' = NumRows
    /\ pc' = "rows"
    /\ UNCHANGED <<argc, atoi_ret, count, rand, fdOpen, readRet, vec_count,
                   vecs, dice_num, lastCall, entropy, output, status>>

ForDone ==
    /\ pc = "for"
    /\ ~(dice_num < CountVal(count))
    /\ pc' = "writev"
    /\ UNCHANGED <<argc, atoi_ret, count, rand, fdOpen, readRet, dice_vals,
                   vec_count, vecs, dice_num, row, value, lastCall, faces,
                   entropy, output, status, events>>

\* one pass of `while (row-- > 0)` over the rows of a die
PutRow ==
    /\ pc = "rows"
    /\ row > 0
    /\ row' = row - 1
    /\ \E part \in PartsOf(row', value) :
         /\ vecs' = [vecs EXCEPT
                       ![StripIndex(row', CountVal(count), dice_num) + 1] =
                           row_vec(part)]
         /\ lastCall' = <<row', value, part>>
    /\ UNCHANGED <<pc, argc, atoi_ret, count, rand, fdOpen, readRet,
                   dice_vals, vec_count, dice_num, value, faces, entropy,
                   output, status, events>>

RowsDone ==
    /\ pc = "rows"
    /\ row = 0
    /\ row' = 255
    /\ dice_num' = dice_num + 1
    /\ pc' = "for"
    /\ UNCHANGED <<argc, atoi_ret, count, rand, fdOpen, readRet, dice_vals,
                   vec_count, vecs, value, lastCall, faces, entropy, output,
                   status, events>>

\* an iovec writev can read: a length that is no error, a base in the program
ValidVec(v) == v.iov_len >= 0 /\ v.iov_base # NULL /\ v.iov_base # InvalidPtr

\* the iov_len bytes at iov_base; what lies behind the string is not known
Bytes(v) ==
    [i \in 1..v.iov_len |-> IF i <= Len(v.iov_base) THEN v.iov_base[i] ELSE "?"]

\* the bytes of vs[i..n], in order
RECURSIVE Gather(_, _, _)
Gather(vs, i, n) ==
    IF i > n THEN <<>> ELSE Bytes(vs[i]) \o Gather(vs, i + 1, n)

\* the number of leading elements of vs that are valid
RECURSIVE ValidPrefix(_, _)
ValidPrefix(vs, i) ==
    IF i > Len(vs) \/ ~ValidVec(vs[i]) THEN i - 1 ELSE ValidPrefix(vs, i + 1)

\* writev(1, vecs, vec_count): the bytes of all elements in order; with a bad
\* element the call fails, and what was written before it is not determined
Writev ==
    /\ pc = "writev"
    /\ IF ValidPrefix(vecs, 1) = vec_count
       THEN output' = Gather(vecs, 1, vec_count)
       ELSE output' \in {<<>>, Gather(vecs, 1, ValidPrefix(vecs, 1))}
    /\ events' = Append(events, "writev")
    /\ pc' = "return"
    /\ UNCHANGED <<argc, atoi_ret, count, rand, fdOpen, readRet, dice_vals,
                   vec_count, vecs, dice_num, row, value, lastCall, faces,
                   entropy, status>>

Return0 ==
    /\ pc = "return"
    /\ status' = 0
    /\ pc' = "done"
    /\ events' = Append(events, "exit")
    /\ UNCHANGED <<argc, atoi_ret, count, rand, fdOpen, readRet, dice_vals,
                   vec_count, vecs, dice_num, row, value, lastCall, faces,
                   entropy, output>>

Next ==
    \/ ParseArgs
    \/ RejectCount
    \/ AcceptCount
    \/ OpenRandom
    \/ ReadRandom
    \/ CloseRandom
    \/ Alloca
    \/ PutLineEnd
    \/ LineEndsDone
    \/ DeriveValue
    \/ ForDone
    \/ PutRow
    \/ RowsDone
    \/ Writev
    \/ Return0

Spec == Init /\ [][Next]_vars

-----------------------------------------------------------------------------
(* What the claims speak of *)

Zero64 == [i \in 1..EntropyBytes |-> 0]

\* the events that are system calls
Calls == SelectSeq(events, LAMBDA e : e # "derive")

IsPrefix(a, b) == Len(a) <= Len(b) /\ SubSeq(b, 1, Len(a)) = a

\* pip position pos (0..8) of the face of value v, read off the table
PipAt(v, pos) == (pips[v + 1] \div Pow2(pos)) % 2

\* row r of the face of value v as the bit-masking renderer draws it: 14 '#'
\* and 2 spaces, and on an odd row the pixel of every pip of that row blanked
RefStrip(r, v) ==
    [i \in 1..16 |->
        IF i > 14 THEN " "
        ELSE IF /\ r % 2 = 1
                /\ \E k \in 0..2 : /\ i \in {4 * k + 3, 4 * k + 4}
                                   /\ PipAt(v, 3 * (r \div 2) + k) = 1
             THEN " "
             ELSE "#"]

\* the number of blanked 2-character groups among the three pip columns
BlankGroups(strip) ==
    Cardinality({k \in 0..2 : /\ Len(strip) >= 4 * k + 4
                              /\ strip[4 * k + 3] = " "
                              /\ strip[4 * k + 4] = " "})

\* the number of pips of the face of value v in row-third t (0..2)
PipsInThird(v, t) == PipAt(v, 3 * t) + PipAt(v, 3 * t + 1) + PipAt(v, 3 * t + 2)

\* line r of the frame of the faces fs: the strips in die order, then a newline
RECURSIVE FrameRow(_, _, _)
FrameRow(r, fs, d) ==
    IF d > Len(fs) THEN <<"\n">> ELSE RefStrip(r, fs[d]) \o FrameRow(r, fs, d + 1)

RECURSIVE Frame(_, _)
Frame(fs, r) ==
    IF r >= NumRows THEN <<>> ELSE FrameRow(r, fs, 1) \o Frame(fs, r + 1)

\* the positions of the newlines in the output
NewlineAt == {i \in 1..Len(output) : output[i] = "\n"}

\* bs * 6 + carry over the bytes 1..i of bs, with the carry out of the top
RECURSIVE MulAdd6(_, _, _)
MulAdd6(bs, i, carry) ==
    IF i = 0
    THEN [bytes |-> <<>>, carry |-> carry]
    ELSE LET t == bs[i] * 6 + carry
             rest == MulAdd6(bs, i - 1, t \div 256)
         IN [bytes |-> Append(rest.bytes, t % 256), carry |-> rest.carry]

\* ((bs * 6 + fs[j]-1) * 6 + fs[j-1]-1) * 6 ... + fs[1]-1, and whether it fits
RECURSIVE Rebuild(_, _, _)
Rebuild(bs, fs, j) ==
    IF j = 0
    THEN [bytes |-> bs, fits |-> TRUE]
    ELSE LET m == MulAdd6(bs, Len(bs), fs[j] - 1)
             r == Rebuild(m.bytes, fs, j - 1)
         IN [bytes |-> r.bytes, fits |-> r.fits /\ m.carry = 0]

\* row_vec against the bit-masking renderer, for all values and rows
AllStripsAgree ==
    \A v \in 1..6, r \in 0..6 : \A p \in PartsOf(r, v) :
        /\ row_vec(p).iov_len = 16
        /\ Bytes(row_vec(p)) = RefStrip(r, v)
        /\ r % 2 = 0 => Bytes(row_vec(p)) = Hashes(14) \o Blank

\* the blanked groups of row_vec against the pips of the table, for all values
AllFacesCount ==
    \A v \in 1..6 :
        /\ \A t \in 0..2 : \A p \in PartsOf(2 * t + 1, v) :
             BlankGroups(row_vec(p).iov_base) = PipsInThird(v, t)
        /\ PipsInThird(v, 0) + PipsInThird(v, 1) + PipsInThird(v, 2) = v

\* the patterns row_vec indexes dice_parts with, for all values and rows
AllPartsInTable ==
    \A v \in 1..6, r \in 0..6 : PartsOf(r, v) \subseteq {0, 1, 2, 4, 5}

AfterCheck == pc \notin {"parse", "check"}

FinishedOk == pc = "done" /\ status = 0

-----------------------------------------------------------------------------
(* The claims *)

\* C1: once count is known to exceed 10, the program is done with status 1,
\* has written nothing and has never called writev.
C1_RejectsMoreThanTen ==
    (AfterCheck /\ (count.hi > 0 \/ count.lo > 10)) =>
        /\ pc = "done"
        /\ status = 1
        /\ output = <<>>
        /\ \A i \in 1..Len(events) : events[i] # "writev"

C1_Witness ==
    pc = "done" /\ argc > 1 /\ atoi_ret = 11 /\ status = 1 /\ output = <<>>

\* C2: from the moment the vector is handed to writev it has (count+1)*7
\* elements, all assigned; element r*(count+1)+d is the 16-byte strip of die d
\* at row r and element r*(count+1)+count a 1-byte newline; the output is the
\* 7 rows of strips in die order, each followed by one newline, with 7 newlines
\* in all, and for count 0 seven newlines and nothing else.
C2_VectorShape ==
    (pc \in {"writev", "return"} \/ FinishedOk) =>
        LET c == CountVal(count) IN
        /\ c \in 0..10
        /\ vec_count = (c + 1) * 7
        /\ Len(vecs) = vec_count
        /\ \A i \in 1..Len(vecs) : vecs[i] # Uninit /\ ValidVec(vecs[i])
        /\ Len(faces) = c
        /\ \A r \in 0..6 :
             /\ \A d \in 0..(c - 1) :
                  /\ vecs[r * (c + 1) + d + 1].iov_len = 16
                  /\ Bytes(vecs[r * (c + 1) + d + 1]) = RefStrip(r, faces[d + 1])
             /\ Bytes(vecs[r * (c + 1) + c + 1]) = <<"\n">>
        /\ pc # "writev" =>
             /\ output = Frame(faces, 0)
             /\ Cardinality(NewlineAt) = 7
             /\ c = 0 => output = [i \in 1..7 |-> "\n"]

C2_Witness ==
    /\ FinishedOk
    /\ CountVal(count) = 3
    /\ faces[1] # faces[2]
    /\ Len(output) > 7

\* C3 as claimed: for count in 1..10 every line of the output is 16*count
\* bytes long with its newline, and the output 16*count*7 bytes.
C3_Original ==
    (FinishedOk /\ CountVal(count) \in 1..10) =>
        /\ NewlineAt = {k * (16 * CountVal(count)) : k \in 1..7}
        /\ Len(output) = 16 * CountVal(count) * 7

\* C3 as amended: for count in 1..10 every line of the output is 16*count + 1
\* bytes long with its newline (the newline follows the separator of the last
\* die), and the output (16*count + 1)*7 bytes.
C3_LineLength ==
    (FinishedOk /\ CountVal(count) \in 1..10) =>
        /\ NewlineAt = {k * (16 * CountVal(count) + 1) : k \in 1..7}
        /\ Len(output) = (16 * CountVal(count) + 1) * 7
        /\ \A k \in 1..7 : output[k * (16 * CountVal(count) + 1) - 1] = " "

C3_Witness ==
    FinishedOk /\ CountVal(count) = 10 /\ Len(output) = 1127

\* C4: for every value 1..6 and row 0..6 the strip row_vec picks from
\* dice_parts is 16 bytes and equal to the strip of the bit-masking renderer,
\* on an even row 14 '#' and 2 spaces whatever the value; so is every strip the
\* program has put into the vector.
C4_TableEqualsBitmask ==
    /\ AllStripsAgree
    /\ (pc = "rows" /\ lastCall # <<>> /\ row < NumRows) =>
         Bytes(vecs[StripIndex(lastCall[1], CountVal(count), dice_num) + 1])
             = RefStrip(lastCall[1], lastCall[2])

C4_Witness ==
    /\ pc = "rows"
    /\ lastCall # <<>>
    /\ row = 3
    /\ lastCall[1] = 3
    /\ lastCall[2] = 5
    /\ Bytes(vecs[StripIndex(3, CountVal(count), dice_num) + 1])
           = Hashes(6) \o Blank \o Hashes(6) \o Blank

\* C5: for every value 1..6 the strip of each odd row has as many blanked
\* groups as the value has pips in that row-third of the table, and the three
\* odd rows together have value blanked groups; so has every die the program
\* has finished.
C5_PipCount ==
    /\ AllFacesCount
    /\ \A d \in 0..(Len(faces) - 1) :
         (d < dice_num \/ pc \in {"writev", "return", "done"}) =>
            LET at(r) == vecs[StripIndex(r, CountVal(count), d) + 1].iov_base
            IN BlankGroups(at(1)) + BlankGroups(at(3)) + BlankGroups(at(5))
                   = faces[d + 1]

C5_Witness ==
    /\ FinishedOk
    /\ Len(faces) = 10
    /\ \A v \in 1..6 : \E d \in 1..10 : faces[d] = v

\* C6: every derived value is in 1..6, and with i values derived the running
\* value r and the values f satisfy E = r*6^i + sum (f[j]-1)*6^(j-1) within 64
\* bits, that is f[j] = ((E div 6^(j-1)) mod 6) + 1 and r = E div 6^i; a
\* finished run has derived count values; E = 0 gives a first value of 1.
C6_Base6Digits ==
    /\ \A j \in 1..Len(faces) : faces[j] \in 1..6
    /\ Rebuild(dice_vals, faces, Len(faces)) = [bytes |-> entropy, fits |-> TRUE]
    /\ FinishedOk => Len(faces) = CountVal(count)
    /\ (entropy = Zero64 /\ Len(faces) >= 1) => faces[1] = 1

C6_Witness ==
    /\ FinishedOk
    /\ Len(faces) = 10
    /\ faces[1] # faces[2]
    /\ faces[10] # 1
    /\ dice_vals # Zero64

\* C7: the system calls are made in the order open, read, close, writev, exit,
\* each once; no value is derived before the read; the handle is closed when
\* writev is reached; and no handle is open when the program has exited, on
\* the rejection path (which makes no call but exit) as well.
C7_CallOrder ==
    /\ \/ IsPrefix(Calls, <<"open", "read", "close", "writev", "exit">>)
       \/ Calls = <<"exit">> /\ status = 1
    /\ \A i \in 1..Len(events) :
         events[i] = "derive" =>
            \E j \in 1..(i - 1) : events[j] = "read"
    /\ readRet <= EntropyBytes
    /\ pc \in {"alloca", "line_ends", "for", "rows", "writev", "return"} =>
         /\ ~fdOpen
         /\ IsPrefix(<<"open", "read", "close">>, Calls)
    /\ FinishedOk => Calls = <<"open", "read", "close", "writev", "exit">>
    /\ pc = "done" => ~fdOpen

C7_Witness ==
    /\ FinishedOk
    /\ readRet = EntropyBytes
    /\ Len(faces) = 2
    /\ events = <<"open", "read", "close", "derive", "derive", "writev", "exit">>

\* C8: whatever open and read returned, a run with count <= 10 ends with
\* status 0 after deriving count values and writing a full frame of (count+1)*7
\* elements; status 1 is returned only for count > 10.
C8_EntropyFailureIgnored ==
    /\ (AfterCheck /\ count.hi = 0 /\ count.lo <= 10) =>
         /\ status \in {0 - 1, 0}
         /\ pc = "done" =>
              /\ status = 0
              /\ Len(faces) = count.lo
              /\ vec_count = (count.lo + 1) * 7
              /\ Len(output) = count.lo * 7 * 16 + 7
              /\ \E i \in 1..Len(events) : events[i] = "writev"
    /\ status = 1 => (count.hi > 0 \/ count.lo > 10)

C8_Witness ==
    /\ FinishedOk
    /\ readRet < EntropyBytes
    /\ count.lo = 10
    /\ Len(output) = 1127

\* C9: every call of row_vec has row in 0..6 and value in 1..6 and indexes
\* dice_parts with 0, 1, 2, 4 or 5, and every element of the vector that is
\* neither unassigned nor a line end points to one of these five 16-byte strips.
C9_PartInTable ==
    /\ AllPartsInTable
    /\ lastCall # <<>> =>
         /\ lastCall[1] \in 0..6
         /\ lastCall[2] \in 1..6
         /\ lastCall[3] \in {0, 1, 2, 4, 5}
    /\ pc = "rows" => value \in 1..6 /\ row \in 0..7
    /\ \A i \in 1..Len(vecs) :
         (vecs[i] # Uninit /\ vecs[i] # NewlineVec) =>
            /\ vecs[i].iov_len = 16
            /\ \E p \in {0, 1, 2, 4, 5} : vecs[i].iov_base = dice_parts[p + 1]
            /\ Len(vecs[i].iov_base) >= 16

C9_Witness ==
    /\ lastCall # <<>>
    /\ lastCall = <<5, 5, 5>>
    /\ entropy = [i \in 1..EntropyBytes |-> 255]
    /\ dice_num = 8

\* C10: an argument that parses to a negative n makes count n + 2^32, and the
\* program then exits with status 1 without output and without opening the
\* randomness source.
C10_NegativeRejected ==
    (argc > 1 /\ atoi_ret < 0 /\ pc # "parse") =>
        /\ count.hi >= 32768
        /\ count.lo \in 0..65535
        /\ (count.hi - 65536) * 65536 + count.lo = atoi_ret
        /\ pc \in {"check", "done"}
        /\ events \in {<<>>, <<"exit">>}
        /\ pc = "done" => status = 1 /\ output = <<>> /\ vecs = <<>>

C10_Witness ==
    /\ pc = "done"
    /\ argc > 1
    /\ atoi_ret = 0 - 1
    /\ count = [hi |-> 65535, lo |-> 65535]
    /\ status = 1

====
